---- MODULE Spec2Model ----
(***************************************************************************)
(* Model of the recorder state machine of my-blocks                        *)
(* (src/src/machines/recorder/index.ts): the XState machine               *)
(* recorderMachine, the promise actors fetchKey and initialize, the       *)
(* browser resources they acquire (media stream, MediaRecorder, Deepgram  *)
(* socket, AudioContext, animation frames, object URLs) and the two       *)
(* delayed transitions (20000 ms in ready, 1000 ms in recording.active).  *)
(*                                                                         *)
(* One action of the model is one macrostep of the machine (an event      *)
(* processed to completion, with the exit, transition and entry actions   *)
(* in the order XState v5 runs them) or one step of the environment (a    *)
(* promise settling, an animation frame running, time passing).           *)
(***************************************************************************)
EXTENDS Integers, Sequences, FiniteSets, TLC

\* ------------------------------------------------------------------ bounds
\* HOVER is accepted at most MaxAttempts times (every fetch, acquisition,
\* recording and object URL belongs to one attempt).
MaxAttempts == 2
\* longest audioChunks / transcripts log explored
MaxChunks == 2
MaxTranscripts == 2
\* Active time explored per recording, in time steps of active
MaxActiveSteps == 3
\* sampling loops whose pending frame id is no longer stored in the context
MaxLoops == 1
\* time passes in equal steps: ActiveSteps of them make up the delay of
\* recording.active, ReadySteps of them the delay of ready
ActiveSteps == 2
ReadySteps == 2
\* longest sequence of recognition events handed to processTranscriptToString
MaxEvents == 3

\* ------------------------------------------------------- program constants
ActiveDelayMs == 1000
ReadyDelayMs == 20000
\* time elapsed after n steps of the active timer / of the ready timer
ActiveMs(n) == (n * ActiveDelayMs) \div ActiveSteps
ReadyMs(n) == (n * ReadyDelayMs) \div ReadySteps

\* payloads of AUDIO_DATA and TRANSCRIPT_RECEIVED events: every event carries
\* a new object, named by its arrival number within the recording
ChunkData(received) == {received + 1}
TranscriptData(received) == {received + 1}

\* SupportedLanguage: the initial language of the context and one other
Languages == {"ru-RU", "en-US"}

NoKey == 0
NoUrl == 0
\* recordedAudio: null before the first recording is stopped
NoBlob == <<0>>

VARIABLES
    state,            \* top-level state value of the machine
    sub,              \* child state of recording: "active" / "paused", else "none"
    context,          \* RecorderContext
    attempts,         \* number of HOVERs accepted so far; names keys and URLs
    init,             \* the running initialize() invocation
    orphanMic,        \* getMicrophone() calls still pending after Promise.all rejected
    orphanSock,       \* initializeDeepgram() calls still pending after Promise.all rejected
    openStreams,      \* media streams whose tracks have not been stopped
    openSockets,      \* sockets opened (keep-alive interval running), close not requested
    openContexts,     \* AudioContexts not closed
    recorderState,    \* MediaRecorder.state of context.microphone
    framePending,     \* the frame whose id is context.analyzerFrameId is still scheduled
    freeLoops,        \* loops whose scheduled frame has an id stored nowhere
    timer,            \* time steps since the current delayed transition was armed
    urls,             \* object URLs created and not revoked
    urlBlob,          \* content of the blob the latest object URL was created from
    expiredKeys,      \* keys discarded by the 20000 ms transition of ready
    clicked,          \* in prefetching: a CLICK was received since it was entered
    activeTotal,      \* time steps spent in recording.active in this recording
    resumedAt,        \* value of activeTotal when active was last entered from outside
                      \* (entry of recording or resume)
    chunksReceived,   \* AUDIO_DATA events received in this recording
    transcriptsReceived, \* TRANSCRIPT_RECEIVED events received in this recording
    exitTrace,        \* calls of the exit of recording of this attempt, in execution order
    errorReported,    \* the socket Error listener sent ERROR in this recording
    usedKeys,         \* keys handed to an initialize invocation so far
    cancelsOfId,      \* cancelAnimationFrame calls made with the id startAnalyzer stored last
    lateSettled       \* an acquisition settled after its initialize had rejected

vars == <<state, sub, context, attempts, init, orphanMic, orphanSock,
          openStreams, openSockets, openContexts, recorderState,
          framePending, freeLoops, timer, urls, urlBlob, expiredKeys,
          clicked, activeTotal, resumedAt, chunksReceived,
          transcriptsReceived, exitTrace, errorReported, usedKeys,
          cancelsOfId, lateSettled>>

envVars == <<orphanMic, orphanSock, openStreams, openSockets, openContexts>>
loopVars == <<framePending, freeLoops>>
receivedVars == <<resumedAt, chunksReceived, transcriptsReceived>>
auditVars == <<errorReported, usedKeys, cancelsOfId, lateSettled>>
ghostVars == <<expiredKeys, clicked, activeTotal, receivedVars, exitTrace,
               auditVars>>
urlVars == <<urls, urlBlob>>

\* ------------------------------------------------------------ the context
InitialContext ==
    [ transcripts |-> <<>>,
      microphone |-> FALSE,
      socket |-> FALSE,
      prefetchedKey |-> NoKey,
      error |-> "null",
      stream |-> FALSE,
      pendingStartClick |-> FALSE,
      language |-> "ru-RU",
      audioChunks |-> <<>>,
      recordedAudio |-> NoBlob,
      audioUrl |-> NoUrl,
      elapsedTime |-> 0,
      analyser |-> FALSE,
      dataArray |-> FALSE,
      analyzerFrameId |-> FALSE,
      audioContext |-> FALSE ]

NoInit == [ prefetchedKey |-> NoKey, language |-> "ru-RU",
            mic |-> "none", sock |-> "none" ]

Init ==
    /\ state = "idle"
    /\ sub = "none"
    /\ context = InitialContext
    /\ attempts = 0
    /\ init = NoInit
    /\ orphanMic = 0
    /\ orphanSock = 0
    /\ openStreams = 0
    /\ openSockets = 0
    /\ openContexts = 0
    /\ recorderState = "inactive"
    /\ framePending = FALSE
    /\ freeLoops = 0
    /\ timer = 0
    /\ urls = {}
    /\ urlBlob = NoBlob
    /\ expiredKeys = {}
    /\ clicked = FALSE
    /\ activeTotal = 0
    /\ resumedAt = 0
    /\ chunksReceived = 0
    /\ transcriptsReceived = 0
    /\ exitTrace = <<>>
    /\ errorReported = FALSE
    /\ usedKeys = {}
    /\ cancelsOfId = 0
    /\ lateSettled = FALSE

\* ------------------------------------------------------- guards, actions
checkPendingStartClick(ctx) == ctx.pendingStartClick

\* invalidateKey that clears the error only
invalidateKey_keepsKey(ctx) == [ctx EXCEPT !.error = "null"]

invalidateKey(ctx) == [ctx EXCEPT !.prefetchedKey = NoKey, !.error = "null"]

setPendingStartClick(ctx) == [ctx EXCEPT !.pendingStartClick = TRUE]

\* resetSavedState that leaves the transcripts
resetSavedState_keepsTranscripts(ctx) == [ctx EXCEPT !.audioUrl = NoUrl]

resetSavedState(ctx) == [ctx EXCEPT !.audioUrl = NoUrl, !.transcripts = <<>>]

tick(ctx) == [ctx EXCEPT !.elapsedTime = ctx.elapsedTime + 1]

\* input of the initialize invocation, read when initializing is entered.
\* prefetchedKey is never null here (part of C6), so the fetch inside
\* initialize (input.prefetchedKey ?? await fetchKeyFunc()) never runs.
InitializeInput(ctx) ==
    [ prefetchedKey |-> ctx.prefetchedKey, language |-> ctx.language,
      mic |-> "pending", sock |-> "pending" ]

\* startRecording: microphone.start(250) when the recorder is inactive
startRecording(ctx, rec) ==
    IF ctx.microphone /\ ctx.socket /\ rec = "inactive" THEN "recording" ELSE rec

pauseRecording(ctx, rec) ==
    IF ctx.microphone /\ rec = "recording" THEN "paused" ELSE rec

resumeRecording(ctx, rec) ==
    IF ctx.microphone /\ rec = "paused" THEN "recording" ELSE rec

\* startAnalyzer: requestAnimationFrame(updateAnalyzer) and the id stored in
\* the context. A frame scheduled under the id stored before loses its
\* only reference.
startAnalyzerRuns(ctx) == ctx.analyser /\ ctx.dataArray

startAnalyzer(ctx) ==
    IF startAnalyzerRuns(ctx) THEN [ctx EXCEPT !.analyzerFrameId = TRUE] ELSE ctx

startAnalyzerPending(ctx, pending) ==
    IF startAnalyzerRuns(ctx) THEN TRUE ELSE pending

startAnalyzerFree(ctx, pending, free) ==
    IF startAnalyzerRuns(ctx) /\ pending THEN free + 1 ELSE free

\* a new id is stored: no cancel was made with it yet
startAnalyzerCancels(ctx, cancels) ==
    IF startAnalyzerRuns(ctx) THEN 0 ELSE cancels

\* stopAnalyzer: cancelAnimationFrame(context.analyzerFrameId), id set to null
stopAnalyzerRuns(ctx) == ctx.analyzerFrameId

\* stopAnalyzer that cancels the frame and keeps its id
stopAnalyzer_keepsId(ctx) == ctx

stopAnalyzer(ctx) ==
    IF stopAnalyzerRuns(ctx) THEN [ctx EXCEPT !.analyzerFrameId = FALSE] ELSE ctx

stopAnalyzerPending(ctx, pending) ==
    IF stopAnalyzerRuns(ctx) THEN FALSE ELSE pending

stopAnalyzerCalls(ctx) ==
    IF stopAnalyzerRuns(ctx) THEN <<"cancelAnimationFrame">> ELSE <<>>

stopAnalyzerCancels(ctx, cancels) == cancels + Len(stopAnalyzerCalls(ctx))

\* stopRecording with the stop of the microphone not guarded
stopRecordingCalls_unguarded(ctx) ==
    <<"microphone.stop">>
    \o (IF ctx.socket THEN <<"socket.requestClose">> ELSE <<>>)
    \o (IF ctx.stream THEN <<"track.stop">> ELSE <<>>)
    \o (IF ctx.audioContext THEN <<"audioContext.close">> ELSE <<>>)
    \o (IF ctx.analyser THEN <<"analyser.disconnect">> ELSE <<>>)

\* stopRecording: the five guarded release calls, in source order
stopRecordingCalls(ctx) ==
    (IF ctx.microphone THEN <<"microphone.stop">> ELSE <<>>)
    \o (IF ctx.socket THEN <<"socket.requestClose">> ELSE <<>>)
    \o (IF ctx.stream THEN <<"track.stop">> ELSE <<>>)
    \o (IF ctx.audioContext THEN <<"audioContext.close">> ELSE <<>>)
    \o (IF ctx.analyser THEN <<"analyser.disconnect">> ELSE <<>>)

Released(calls, name) == IF \E i \in 1..Len(calls) : calls[i] = name THEN 1 ELSE 0

\* the assign of recording.exit: every assigner reads the context as it was
\* before the assign; the new Blob and createObjectURL run while the
\* assigners are evaluated, the context is replaced afterwards
exitAssignCalls(ctx) ==
    (IF ctx.audioUrl # NoUrl THEN <<"revokeObjectURL">> ELSE <<>>)
    \o <<"createObjectURL", "assign">>

\* the blob built from the log after its reset
exitBlob_afterReset(ctx) == <<>>

exitBlob(ctx) == ctx.audioChunks

\* the assign of recording.exit without the reset of stream
exitAssign_keepsStream(ctx, url) ==
    [ctx EXCEPT !.microphone = FALSE,
                !.socket = FALSE,
                !.pendingStartClick = FALSE,
                !.audioChunks = <<>>,
                !.prefetchedKey = NoKey,
                !.elapsedTime = 0,
                !.analyser = FALSE,
                !.dataArray = FALSE,
                !.audioContext = FALSE,
                !.recordedAudio = exitBlob(ctx),
                !.audioUrl = url]

exitAssign(ctx, url) ==
    [ctx EXCEPT !.microphone = FALSE,
                !.socket = FALSE,
                !.pendingStartClick = FALSE,
                !.audioChunks = <<>>,
                !.stream = FALSE,
                !.prefetchedKey = NoKey,
                !.elapsedTime = 0,
                !.analyser = FALSE,
                !.dataArray = FALSE,
                !.audioContext = FALSE,
                !.recordedAudio = exitBlob(ctx),
                !.audioUrl = url]

exitUrls(ctx, set, url) ==
    (IF ctx.audioUrl # NoUrl THEN set \ {ctx.audioUrl} ELSE set) \cup {url}

\* exit list with stopAnalyzer ahead of stopRecording
exitRecordingCalls_analyzerFirst(ctx) ==
    stopAnalyzerCalls(ctx) \o stopRecordingCalls(ctx) \o exitAssignCalls(stopAnalyzer(ctx))

\* exit of recording: stopRecording, stopAnalyzer, assign
exitRecordingCalls(ctx) ==
    stopRecordingCalls(ctx) \o stopAnalyzerCalls(ctx) \o exitAssignCalls(stopAnalyzer(ctx))

\* ------------------------------------------------------------------ idle
HOVER ==
    /\ state = "idle"
    /\ attempts < MaxAttempts
    /\ state' = "prefetching"
    /\ attempts' = attempts + 1
    /\ clicked' = FALSE
    /\ exitTrace' = <<>>
    /\ UNCHANGED <<sub, context, init, envVars, recorderState, loopVars, timer,
                   urlVars, expiredKeys, activeTotal, receivedVars,
                   auditVars>>

\* ----------------------------------------------------------- prefetching
PrefetchingCLICK ==
    /\ state = "prefetching"
    /\ context' = resetSavedState(setPendingStartClick(context))
    /\ clicked' = TRUE
    /\ UNCHANGED <<state, sub, attempts, init, envVars, recorderState, loopVars,
                   timer, urlVars, expiredKeys, activeTotal, receivedVars, exitTrace,
                   auditVars>>

\* onDone of fetchKey that keeps a key already cached
KeyFetchedAssign_keepsCached(ctx, output) ==
    [ctx EXCEPT !.prefetchedKey =
        IF ctx.prefetchedKey # NoKey THEN ctx.prefetchedKey ELSE output]

\* onDone of fetchKey: prefetchedKey is the output of the invocation
KeyFetchedAssign(ctx, output) == [ctx EXCEPT !.prefetchedKey = output]

\* fetchKey resolved; the key fetched in attempt n is key n
FetchKeyDone ==
    /\ state = "prefetching"
    /\ IF checkPendingStartClick(context)
       THEN /\ context' = [KeyFetchedAssign(context, attempts)
                              EXCEPT !.pendingStartClick = FALSE]
            /\ state' = "initializing"
            /\ init' = InitializeInput(context')
            /\ usedKeys' = usedKeys \cup {init'.prefetchedKey}
            /\ timer' = 0
       ELSE /\ context' = KeyFetchedAssign(context, attempts)
            /\ state' = "ready"
            /\ timer' = 0
            /\ UNCHANGED <<init, usedKeys, lateSettled>>
    /\ clicked' = FALSE
    /\ UNCHANGED <<sub, attempts, envVars, recorderState, loopVars, urlVars,
                   expiredKeys, activeTotal, receivedVars, exitTrace,
                   errorReported, cancelsOfId, lateSettled>>

FetchKeyError ==
    /\ state = "prefetching"
    /\ state' = "idle"
    /\ context' = [context EXCEPT !.error = "fetch"]
    /\ clicked' = FALSE
    /\ UNCHANGED <<sub, attempts, init, envVars, recorderState, loopVars, timer,
                   urlVars, expiredKeys, activeTotal, receivedVars, exitTrace,
                   auditVars>>

\* ----------------------------------------------------------------- ready
ReadyTimePasses ==
    /\ state = "ready"
    /\ ReadyMs(timer + 1) < ReadyDelayMs
    /\ timer' = timer + 1
    /\ UNCHANGED <<state, sub, context, attempts, init, envVars, recorderState,
                   loopVars, urlVars, ghostVars>>

After20000 ==
    /\ state = "ready"
    /\ ReadyMs(timer + 1) >= ReadyDelayMs
    /\ state' = "idle"
    /\ context' = invalidateKey(context)
    /\ expiredKeys' = expiredKeys \cup {context.prefetchedKey}
    /\ timer' = 0
    /\ UNCHANGED <<sub, attempts, init, envVars, recorderState, loopVars,
                   urlVars, clicked, activeTotal, receivedVars, exitTrace,
                   auditVars>>

ReadyCLICK ==
    /\ state = "ready"
    /\ context' = resetSavedState(context)
    /\ state' = "initializing"
    /\ init' = InitializeInput(context')
    /\ usedKeys' = usedKeys \cup {init'.prefetchedKey}
    /\ timer' = 0
    /\ UNCHANGED <<sub, attempts, envVars, recorderState, loopVars, urlVars,
                   expiredKeys, clicked, activeTotal, receivedVars, exitTrace,
                   errorReported, cancelsOfId, lateSettled>>

\* ---------------------------------------------------------- initializing
\* initialize(): Promise.all([getMicrophone(), initializeDeepgram(apiKey, language)])
\* getUserMedia resolved (the stream is live from here on) or rejected
GetMicrophoneSettles(ok) ==
    /\ state = "initializing"
    /\ init.mic = "pending"
    /\ init' = [init EXCEPT !.mic = IF ok THEN "ok" ELSE "failed"]
    /\ openStreams' = openStreams + (IF ok THEN 1 ELSE 0)
    /\ UNCHANGED <<state, sub, context, attempts, orphanMic, orphanSock,
                   openSockets, openContexts, recorderState, loopVars, timer,
                   urlVars, ghostVars>>

\* the socket emitted Open (keep-alive interval started, promise resolved)
\* or Error (promise rejected)
InitializeDeepgramSettles(ok) ==
    /\ state = "initializing"
    /\ init.sock = "pending"
    /\ init' = [init EXCEPT !.sock = IF ok THEN "ok" ELSE "failed"]
    /\ openSockets' = openSockets + (IF ok THEN 1 ELSE 0)
    /\ UNCHANGED <<state, sub, context, attempts, orphanMic, orphanSock,
                   openStreams, openContexts, recorderState, loopVars, timer,
                   urlVars, ghostVars>>

\* onDone of initialize: both acquisitions succeeded, the AudioContext and
\* the analyser were built; assign, then the entry actions of recording
InitializeOnDoneAssign(ctx) ==
    [ctx EXCEPT !.microphone = TRUE,
                !.socket = TRUE,
                !.stream = TRUE,
                !.analyser = TRUE,
                !.dataArray = TRUE,
                !.audioContext = TRUE,
                !.prefetchedKey = NoKey]

InitializeDone ==
    /\ state = "initializing"
    /\ init.mic = "ok"
    /\ init.sock = "ok"
    /\ LET assigned == InitializeOnDoneAssign(context)
       IN  /\ context' = startAnalyzer(assigned)
           /\ recorderState' = startRecording(assigned, "inactive")
           /\ framePending' = startAnalyzerPending(assigned, framePending)
           /\ freeLoops' = startAnalyzerFree(assigned, framePending, freeLoops)
           /\ cancelsOfId' = startAnalyzerCancels(assigned, cancelsOfId)
    /\ openContexts' = openContexts + 1
    /\ state' = "recording"
    /\ sub' = "active"
    /\ init' = NoInit
    /\ timer' = 0
    /\ activeTotal' = 0
    /\ resumedAt' = 0
    /\ chunksReceived' = 0
    /\ transcriptsReceived' = 0
    /\ errorReported' = FALSE
    /\ UNCHANGED <<attempts, orphanMic, orphanSock, openStreams, openSockets,
                   urlVars, expiredKeys, clicked, exitTrace, usedKeys, lateSettled>>

\* onError of initialize: Promise.all rejected with the first failure; an
\* acquisition still pending keeps running without an owner
InitializeError ==
    /\ state = "initializing"
    /\ init.mic = "failed" \/ init.sock = "failed"
    /\ context' = [context EXCEPT !.error = "initialize"]
    /\ state' = "idle"
    /\ orphanMic' = orphanMic + (IF init.mic = "pending" THEN 1 ELSE 0)
    /\ orphanSock' = orphanSock + (IF init.sock = "pending" THEN 1 ELSE 0)
    /\ init' = NoInit
    /\ UNCHANGED <<sub, attempts, openStreams, openSockets, openContexts,
                   recorderState, loopVars, timer, urlVars, ghostVars>>

\* a stream resolved late is stored in the context, a late rejection in error
OrphanMicrophoneSettles_applied(ok) ==
    /\ orphanMic > 0
    /\ orphanMic' = orphanMic - 1
    /\ openStreams' = openStreams + (IF ok THEN 1 ELSE 0)
    /\ context' = IF ok THEN [context EXCEPT !.stream = TRUE]
                  ELSE [context EXCEPT !.error = "initialize"]
    /\ lateSettled' = TRUE
    /\ UNCHANGED <<state, sub, attempts, init, orphanSock, openSockets,
                   openContexts, recorderState, loopVars, timer, urlVars,
                   expiredKeys, clicked, activeTotal, receivedVars, exitTrace,
                   errorReported, usedKeys, cancelsOfId>>

\* getUserMedia settled after Promise.all had rejected: the promise of
\* initialize is settled already and the machine hears nothing of it
OrphanMicrophoneSettles(ok) ==
    /\ orphanMic > 0
    /\ orphanMic' = orphanMic - 1
    /\ openStreams' = openStreams + (IF ok THEN 1 ELSE 0)
    /\ lateSettled' = TRUE
    /\ UNCHANGED <<state, sub, context, attempts, init, orphanSock, openSockets,
                   openContexts, recorderState, loopVars, timer, urlVars,
                   expiredKeys, clicked, activeTotal, receivedVars, exitTrace,
                   errorReported, usedKeys, cancelsOfId>>

\* the socket opened or failed after Promise.all had rejected
OrphanDeepgramSettles(ok) ==
    /\ orphanSock > 0
    /\ orphanSock' = orphanSock - 1
    /\ openSockets' = openSockets + (IF ok THEN 1 ELSE 0)
    /\ lateSettled' = TRUE
    /\ UNCHANGED <<state, sub, context, attempts, init, orphanMic, openStreams,
                   openContexts, recorderState, loopVars, timer, urlVars,
                   expiredKeys, clicked, activeTotal, receivedVars, exitTrace,
                   errorReported, usedKeys, cancelsOfId>>

\* ------------------------------------------------------------- recording
\* TRANSCRIPT_RECEIVED handled in active only
TRANSCRIPT_RECEIVED_activeOnly(data) ==
    /\ state = "recording"
    /\ transcriptsReceived < MaxTranscripts
    /\ transcriptsReceived' = transcriptsReceived + 1
    /\ context' = IF sub = "active"
                  THEN [context EXCEPT !.transcripts = Append(context.transcripts, data)]
                  ELSE context
    /\ UNCHANGED <<state, sub, attempts, init, envVars, recorderState, loopVars,
                   timer, urlVars, expiredKeys, clicked, activeTotal,
                   resumedAt, chunksReceived, exitTrace,
                   auditVars>>

TRANSCRIPT_RECEIVED(data) ==
    /\ state = "recording"
    /\ transcriptsReceived < MaxTranscripts
    /\ transcriptsReceived' = transcriptsReceived + 1
    /\ context' = [context EXCEPT !.transcripts = Append(context.transcripts, data)]
    /\ UNCHANGED <<state, sub, attempts, init, envVars, recorderState, loopVars,
                   timer, urlVars, expiredKeys, clicked, activeTotal,
                   resumedAt, chunksReceived, exitTrace,
                   auditVars>>

AUDIO_DATA(data) ==
    /\ state = "recording"
    /\ chunksReceived < MaxChunks
    /\ chunksReceived' = chunksReceived + 1
    /\ context' = [context EXCEPT !.audioChunks = Append(context.audioChunks, data)]
    /\ UNCHANGED <<state, sub, attempts, init, envVars, recorderState, loopVars,
                   timer, urlVars, expiredKeys, clicked, activeTotal,
                   resumedAt, transcriptsReceived, exitTrace,
                   auditVars>>

\* the exit actions of recording run on the context, then idle is entered;
\* url is the object URL createObjectURL returns
ExitRecording(url) ==
    /\ LET calls == exitRecordingCalls(context)
           stopped == stopAnalyzer(context)
       IN  /\ exitTrace' = calls
           /\ recorderState' = IF Released(calls, "microphone.stop") = 1
                               THEN "inactive" ELSE recorderState
           /\ openSockets' = openSockets - Released(calls, "socket.requestClose")
           /\ openStreams' = openStreams - Released(calls, "track.stop")
           /\ openContexts' = openContexts - Released(calls, "audioContext.close")
           /\ framePending' = stopAnalyzerPending(context, framePending)
           /\ cancelsOfId' = stopAnalyzerCancels(context, cancelsOfId)
           /\ context' = exitAssign(stopped, url)
           /\ urls' = exitUrls(stopped, urls, url)
           /\ urlBlob' = exitBlob(stopped)
    /\ state' = "idle"
    /\ sub' = "none"
    /\ timer' = 0
    /\ activeTotal' = 0
    /\ resumedAt' = 0
    /\ chunksReceived' = 0
    /\ transcriptsReceived' = 0
    /\ errorReported' = FALSE
    /\ UNCHANGED <<init, orphanMic, orphanSock, freeLoops, expiredKeys,
                   clicked, usedKeys, lateSettled>>

\* CLICK in recording (either child state): exit actions of recording, then idle.
\* The object URL created when attempt n is stopped is URL n.
RecordingCLICK ==
    /\ state = "recording"
    /\ ExitRecording(attempts)
    /\ UNCHANGED attempts

\* TOGGLE_PAUSE in active: pauseRecording, stopAnalyzer; the 1000 ms delay is cancelled
ActiveTOGGLE_PAUSE ==
    /\ state = "recording"
    /\ sub = "active"
    /\ recorderState' = pauseRecording(context, recorderState)
    /\ framePending' = stopAnalyzerPending(context, framePending)
    /\ cancelsOfId' = stopAnalyzerCancels(context, cancelsOfId)
    /\ context' = stopAnalyzer(context)
    /\ sub' = "paused"
    /\ timer' = 0
    /\ UNCHANGED <<state, attempts, init, envVars, freeLoops, urlVars,
                   expiredKeys, clicked, activeTotal, receivedVars, exitTrace,
                   errorReported, usedKeys, lateSettled>>

\* resume that credits one second for the pause
PausedTOGGLE_PAUSE_catchUp ==
    /\ state = "recording"
    /\ sub = "paused"
    /\ recorderState' = resumeRecording(context, recorderState)
    /\ framePending' = startAnalyzerPending(context, framePending)
    /\ freeLoops' = startAnalyzerFree(context, framePending, freeLoops)
    /\ cancelsOfId' = startAnalyzerCancels(context, cancelsOfId)
    /\ context' = tick(startAnalyzer(context))
    /\ sub' = "active"
    /\ timer' = 0
    /\ resumedAt' = activeTotal
    /\ UNCHANGED <<state, attempts, init, envVars, urlVars, expiredKeys,
                   clicked, activeTotal, chunksReceived, transcriptsReceived,
                   exitTrace, errorReported, usedKeys, lateSettled>>

\* TOGGLE_PAUSE in paused: resumeRecording, startAnalyzer; active is entered
\* and its 1000 ms delay armed anew
PausedTOGGLE_PAUSE ==
    /\ state = "recording"
    /\ sub = "paused"
    /\ recorderState' = resumeRecording(context, recorderState)
    /\ framePending' = startAnalyzerPending(context, framePending)
    /\ freeLoops' = startAnalyzerFree(context, framePending, freeLoops)
    /\ cancelsOfId' = startAnalyzerCancels(context, cancelsOfId)
    /\ context' = startAnalyzer(context)
    /\ sub' = "active"
    /\ timer' = 0
    /\ resumedAt' = activeTotal
    /\ UNCHANGED <<state, attempts, init, envVars, urlVars, expiredKeys,
                   clicked, activeTotal, chunksReceived, transcriptsReceived,
                   exitTrace, errorReported, usedKeys, lateSettled>>

ActiveTimePasses ==
    /\ state = "recording"
    /\ sub = "active"
    /\ activeTotal < MaxActiveSteps
    /\ ActiveMs(timer + 1) < ActiveDelayMs
    /\ timer' = timer + 1
    /\ activeTotal' = activeTotal + 1
    /\ UNCHANGED <<state, sub, context, attempts, init, envVars, recorderState,
                   loopVars, urlVars, expiredKeys, clicked, receivedVars, exitTrace,
                   auditVars>>

\* after 1000 ms in active: ticking (entry: tick), always back to active
After1000 ==
    /\ state = "recording"
    /\ sub = "active"
    /\ activeTotal < MaxActiveSteps
    /\ ActiveMs(timer + 1) >= ActiveDelayMs
    /\ context' = tick(context)
    /\ timer' = 0
    /\ activeTotal' = activeTotal + 1
    /\ UNCHANGED <<state, sub, attempts, init, envVars, recorderState, loopVars,
                   urlVars, expiredKeys, clicked, receivedVars, exitTrace,
                   auditVars>>

\* the frame scheduled by startAnalyzer runs: updateAnalyzer samples (the
\* context it captured still holds the analyser) and schedules itself again
\* under a new id, which nothing stores
AnimationFrame ==
    /\ framePending
    /\ freeLoops < MaxLoops
    /\ framePending' = FALSE
    /\ freeLoops' = freeLoops + 1
    /\ UNCHANGED <<state, sub, context, attempts, init, envVars, recorderState,
                   timer, urlVars, ghostVars>>

\* ERROR handled by a transition to idle
ERROR_toIdle ==
    /\ state = "recording"
    /\ errorReported' = TRUE
    /\ state' = "idle"
    /\ sub' = "none"
    /\ UNCHANGED <<context, attempts, init, envVars, recorderState,
                   loopVars, timer, urlVars, expiredKeys, clicked, activeTotal,
                   receivedVars, exitTrace, usedKeys, cancelsOfId, lateSettled>>

\* the socket emitted Error while its listener of startRecording is
\* registered: actor.send({ type: "ERROR" }). No state of the machine handles
\* ERROR; the event is dropped.
ERROR ==
    /\ state = "recording"
    /\ errorReported' = TRUE
    /\ UNCHANGED <<state, sub, context, attempts, init, envVars, recorderState,
                   loopVars, timer, urlVars, expiredKeys, clicked, activeTotal,
                   receivedVars, exitTrace, usedKeys, cancelsOfId, lateSettled>>

\* --------------------------------------------------------- every state
\* CHANGE_LANGUAGE that starts the current state anew: its delay is armed
\* again and a running initialize is given the new language
CHANGE_LANGUAGE_restarts(language) ==
    /\ context' = [context EXCEPT !.language = language]
    /\ timer' = 0
    /\ init' = IF state = "initializing"
               THEN [init EXCEPT !.language = language] ELSE init
    /\ UNCHANGED <<state, sub, attempts, envVars, recorderState, loopVars,
                   urlVars, ghostVars>>

\* CHANGE_LANGUAGE at the root of the machine: assign of the language, no
\* target, so no state is left or entered and no delay is armed anew
CHANGE_LANGUAGE(language) ==
    /\ context' = [context EXCEPT !.language = language]
    /\ UNCHANGED <<state, sub, attempts, init, envVars, recorderState, loopVars,
                   timer, urlVars, ghostVars>>

\* ------------------------------------------------------------------ spec
Next ==
    \/ HOVER
    \/ PrefetchingCLICK
    \/ FetchKeyDone
    \/ FetchKeyError
    \/ ReadyTimePasses
    \/ After20000
    \/ ReadyCLICK
    \/ \E ok \in BOOLEAN : GetMicrophoneSettles(ok)
    \/ \E ok \in BOOLEAN : InitializeDeepgramSettles(ok)
    \/ InitializeDone
    \/ InitializeError
    \/ \E ok \in BOOLEAN : OrphanMicrophoneSettles(ok)
    \/ \E ok \in BOOLEAN : OrphanDeepgramSettles(ok)
    \/ \E data \in TranscriptData(transcriptsReceived) : TRANSCRIPT_RECEIVED(data)
    \/ \E data \in ChunkData(chunksReceived) : AUDIO_DATA(data)
    \/ RecordingCLICK
    \/ ActiveTOGGLE_PAUSE
    \/ PausedTOGGLE_PAUSE
    \/ ActiveTimePasses
    \/ After1000
    \/ AnimationFrame
    \/ ERROR
    \/ \E language \in Languages : CHANGE_LANGUAGE(language)

Spec == Init /\ [][Next]_vars

\* ------------------------------------------------- the rendered transcript
\* A string is the sequence of its characters. The fragments a recognition
\* event may carry: empty, words, a phrase with an inner space, and one with
\* a leading and a trailing space.
Fragments ==
    { <<>>, <<"h", "e">>, <<"h", "e", "l">>, <<"h", "e", "l", "l", "o">>,
      <<"h", "e", "l", "l", "o", " ", "w", "o", "r", "l", "d">>,
      <<"b", "y", "e">>, <<" ", "a", " ">> }

\* DeepgramResponseData, reduced to the two fields read:
\* channel.alternatives[0].transcript and is_final
RecognitionEvents == [transcript : Fragments, is_final : BOOLEAN]

Space == <<" ">>
WhiteSpace == {" "}

RECURSIVE TrimStart(_)
TrimStart(str) ==
    IF str # <<>> /\ Head(str) \in WhiteSpace THEN TrimStart(Tail(str)) ELSE str

RECURSIVE TrimEnd(_)
TrimEnd(str) ==
    IF str # <<>> /\ str[Len(str)] \in WhiteSpace
    THEN TrimEnd(SubSeq(str, 1, Len(str) - 1))
    ELSE str

\* String.prototype.trim
Trim(str) == TrimEnd(TrimStart(str))

\* one pass of the first loop: the event joins the last chunk; a final event
\* opens a new, empty chunk
PushEvent(chunks, x) ==
    LET pushed == [chunks EXCEPT ![Len(chunks)] = Append(@, x)]
    IN  IF x.is_final THEN Append(pushed, <<>>) ELSE pushed

RECURSIVE ChunksAfter(_, _)
ChunksAfter(chunks, data) ==
    IF data = <<>> THEN chunks
    ELSE ChunksAfter(PushEvent(chunks, Head(data)), Tail(data))

\* x.at(-1) taken as the first element
LastOf_first(x) == x[1]

\* x.at(-1)
LastOf(x) == x[Len(x)]

\* the second loop: result += `${last.transcript} ` for every chunk left
RECURSIVE ResultOf(_)
ResultOf(chunks) ==
    IF chunks = <<>> THEN <<>>
    ELSE LastOf(Head(chunks)).transcript \o Space \o ResultOf(Tail(chunks))

\* processTranscriptToString returning result without trim()
processTranscriptToString_noTrim(data) ==
    LET all == ChunksAfter(<< <<>> >>, data)
        lastChunk == all[Len(all)]
        chunks == SubSeq(all, 1, Len(all) - 1)
    IN  ResultOf(chunks)
           \o (IF Len(lastChunk) > 0 THEN LastOf(lastChunk).transcript ELSE <<>>)

processTranscriptToString(data) ==
    LET all == ChunksAfter(<< <<>> >>, data)
        lastChunk == all[Len(all)]
        chunks == SubSeq(all, 1, Len(all) - 1)
        result == ResultOf(chunks)
                    \o (IF Len(lastChunk) > 0 THEN LastOf(lastChunk).transcript
                        ELSE <<>>)
    IN  Trim(result)

\* the Recorder component renders the transcripts log of the context
Rendered == processTranscriptToString(context.transcripts)

\* recording was entered (first attempt, all resources acquired, log empty)
InitAssembler ==
    /\ state = "recording"
    /\ sub = "active"
    /\ context = startAnalyzer(InitializeOnDoneAssign(InitialContext))
    /\ attempts = 1
    /\ init = NoInit
    /\ orphanMic = 0
    /\ orphanSock = 0
    /\ openStreams = 1
    /\ openSockets = 1
    /\ openContexts = 1
    /\ recorderState = "recording"
    /\ framePending = TRUE
    /\ freeLoops = 0
    /\ timer = 0
    /\ urls = {}
    /\ urlBlob = NoBlob
    /\ expiredKeys = {}
    /\ clicked = FALSE
    /\ activeTotal = 0
    /\ resumedAt = 0
    /\ chunksReceived = 0
    /\ transcriptsReceived = 0
    /\ exitTrace = <<>>
    /\ errorReported = FALSE
    /\ usedKeys = {1}
    /\ cancelsOfId = 0
    /\ lateSettled = FALSE

\* TRANSCRIPT_RECEIVED carrying a recognition event
RecognitionEvent(data) ==
    /\ state = "recording"
    /\ Len(context.transcripts) < MaxEvents
    /\ transcriptsReceived' = transcriptsReceived + 1
    /\ context' = [context EXCEPT !.transcripts = Append(context.transcripts, data)]
    /\ UNCHANGED <<state, sub, attempts, init, envVars, recorderState, loopVars,
                   timer, urlVars, expiredKeys, clicked, activeTotal,
                   resumedAt, chunksReceived, exitTrace, auditVars>>

NextAssembler == \E data \in RecognitionEvents : RecognitionEvent(data)

SpecAssembler == InitAssembler /\ [][NextAssembler]_vars

\* ------------------------------------------------- the exit on any context
\* The exit actions of recording (stopRecording, stopAnalyzer, assign) are
\* functions of the context. Here they are applied to a context holding any
\* combination of the capture resources, and applied again to the context
\* they leave; the environment holds what the context holds.
HeldContexts ==
    { [InitialContext EXCEPT !.microphone = mic, !.socket = sock,
                             !.stream = str, !.audioContext = ac,
                             !.analyser = an, !.dataArray = an,
                             !.analyzerFrameId = id, !.audioChunks = chunks] :
        mic \in BOOLEAN, sock \in BOOLEAN, str \in BOOLEAN, ac \in BOOLEAN,
        an \in BOOLEAN, id \in BOOLEAN, chunks \in {<<>>, <<1>>} }

InitExit ==
    /\ state = "recording"
    /\ sub \in {"active", "paused"}
    /\ context \in HeldContexts
    /\ attempts = 0
    /\ init = NoInit
    /\ orphanMic = 0
    /\ orphanSock = 0
    /\ openStreams = (IF context.stream THEN 1 ELSE 0)
    /\ openSockets = (IF context.socket THEN 1 ELSE 0)
    /\ openContexts = (IF context.audioContext THEN 1 ELSE 0)
    /\ recorderState = (IF ~context.microphone THEN "inactive"
                        ELSE IF sub = "active" THEN "recording" ELSE "paused")
    /\ framePending = context.analyzerFrameId
    /\ freeLoops = 0
    /\ timer = 0
    /\ urls = {}
    /\ urlBlob = NoBlob
    /\ expiredKeys = {}
    /\ clicked = FALSE
    /\ activeTotal = 0
    /\ resumedAt = 0
    /\ chunksReceived = Len(context.audioChunks)
    /\ transcriptsReceived = 0
    /\ exitTrace = <<>>
    /\ errorReported = FALSE
    /\ usedKeys = {}
    /\ cancelsOfId = 0
    /\ lateSettled = FALSE

\* the n-th application creates object URL n
ExitInvoked ==
    /\ attempts < MaxAttempts
    /\ ExitRecording(attempts + 1)
    /\ attempts' = attempts + 1

NextExit == ExitInvoked

SpecExit == InitExit /\ [][NextExit]_vars

\* ================================================================ claims

\* C1: at most one capture-resource bundle is alive at any time: never two
\* media streams, two open sockets or two audio contexts acquired and not
\* yet released.
C1_AtMostOneBundleAlive ==
    /\ openStreams <= 1
    /\ openSockets <= 1
    /\ openContexts <= 1

\* C2: when the machine is back in idle after a failure of initialize, no
\* media stream is still held and no socket (with its keep-alive interval)
\* is still open.
C2_PartialFailureReleased ==
    (state = "idle" /\ context.error = "initialize")
        => (openStreams = 0 /\ openSockets = 0)

\* C3: a handle that has been replaced is released, so at most one object
\* URL is unreleased at any time.
C3_AtMostOneUnreleasedHandle == Cardinality(urls) <= 1

\* C4: the CLICK that stops a recording creates exactly one new object URL,
\* built from the audioChunks log as it was before the stop, which holds
\* the K chunks received in this recording in arrival order, and the same
\* step resets the log.
C4_StopBuildsArtifactFromLog ==
    [][(state = "recording" /\ state' = "idle")
        => /\ Cardinality(urls' \ urls) = 1
           /\ context'.audioUrl \in urls' \ urls
           /\ urlBlob' = context.audioChunks
           /\ urlBlob' = [k \in 1..chunksReceived |-> k]
           /\ context'.recordedAudio = context.audioChunks
           /\ context'.audioChunks = <<>>]_vars

\* C4 witness: a recording was stopped with two chunks in the log.
C4_Witness ==
    /\ state = "idle"
    /\ context.audioUrl # NoUrl
    /\ urlBlob = <<1, 2>>

\* C5: outside recording.active no sampling cycle is scheduled or running.
C5_NoSamplingOutsideActive ==
    ~(state = "recording" /\ sub = "active")
        => (~framePending /\ freeLoops = 0)

\* C6: ready is left after 20 s without a CLICK, to idle and with the
\* cached key discarded; a CLICK before that starts initialize with the
\* cached key; initialize never runs with a key that expired in ready nor
\* with one fetched before an expiry.
C6_ReadyExpiry ==
    [][/\ (state' = "ready")
            => (ReadyMs(timer') < ReadyDelayMs /\ context'.prefetchedKey # NoKey)
       /\ (state = "ready" /\ state' = "idle")
            => (ReadyMs(timer + 1) >= ReadyDelayMs /\ context'.prefetchedKey = NoKey)
       /\ (state = "ready" /\ state' = "initializing")
            => (ReadyMs(timer) < ReadyDelayMs /\ init'.prefetchedKey = context.prefetchedKey)
       /\ (state' = "initializing")
            => /\ init'.prefetchedKey # NoKey
               /\ \A k \in expiredKeys' : init'.prefetchedKey > k]_vars

\* C6 witness: initialize is running after a key expired in ready.
C6_Witness ==
    /\ state = "initializing"
    /\ expiredKeys # {}

\* C7: fetch success in prefetching leads to initializing with the pending
\* flag cleared when a CLICK was received in this prefetching, and to ready
\* with the key cached when none was.
C7_ClickDuringPrefetch ==
    [][(state = "prefetching" /\ state' \notin {"prefetching", "idle"})
        => IF clicked
           THEN state' = "initializing" /\ ~context'.pendingStartClick
           ELSE state' = "ready" /\ context'.prefetchedKey # NoKey]_vars

\* C8: elapsedTime never grows in a step taken in recording.paused; it grows
\* only in recording.active, by one, and only when a full second of Active
\* time has passed since the latest resume (or since the recording started),
\* so nothing is caught up for the paused interval.
C8_NoTickWhilePaused ==
    [][/\ (sub = "paused") => (context'.elapsedTime <= context.elapsedTime)
       /\ (context'.elapsedTime > context.elapsedTime)
            => /\ state = "recording" /\ sub = "active"
               /\ context'.elapsedTime = context.elapsedTime + 1
               /\ ActiveMs(activeTotal' - resumedAt) >= ActiveDelayMs]_vars

\* C8 witness: the recording was paused after some Active time and resumed,
\* and an increment has happened since that resume.
C8_Witness ==
    /\ state = "recording"
    /\ sub = "active"
    /\ resumedAt > 0
    /\ context.elapsedTime >= 1
    /\ activeTotal - timer > resumedAt

\* C9: during a recording elapsedTime equals the number of whole seconds of
\* Active time accumulated since the recording started.
C9_ElapsedIsActiveSeconds ==
    (state = "recording") => (context.elapsedTime = ActiveMs(activeTotal) \div ActiveDelayMs)

\* C10: the calls of an exit of recording happen in the order microphone
\* stop, socket close request, track stop, audio-context close, analyser
\* disconnect, frame cancel, artifact assembly, context reset.
CallRank(name) ==
    CASE name = "microphone.stop" -> 1
      [] name = "socket.requestClose" -> 2
      [] name = "track.stop" -> 3
      [] name = "audioContext.close" -> 4
      [] name = "analyser.disconnect" -> 5
      [] name = "cancelAnimationFrame" -> 6
      [] name = "revokeObjectURL" -> 7
      [] name = "createObjectURL" -> 7
      [] name = "assign" -> 8

C10_ExitOrder ==
    \A i, j \in 1..Len(exitTrace) :
        i < j => CallRank(exitTrace[i]) <= CallRank(exitTrace[j])

\* C10 witness: a recording was stopped in active with the sampling frame
\* still tracked, so that every step ran.
C10_Witness ==
    /\ state = "idle"
    /\ \A r \in 1..8 : \E i \in 1..Len(exitTrace) : CallRank(exitTrace[i]) = r

\* the release calls of the exit of recording
ReleaseCalls ==
    {"microphone.stop", "socket.requestClose", "track.stop",
     "audioContext.close", "analyser.disconnect", "cancelAnimationFrame"}

InTrace(calls, name) == \E i \in 1..Len(calls) : calls[i] = name

HoldsNone(ctx) ==
    /\ ~ctx.microphone
    /\ ~ctx.socket
    /\ ~ctx.stream
    /\ ~ctx.audioContext
    /\ ~ctx.analyser
    /\ ~ctx.analyzerFrameId

RECURSIVE JoinBySpace(_)
JoinBySpace(data) ==
    IF data = <<>> THEN <<>>
    ELSE IF Len(data) = 1 THEN data[1].transcript
    ELSE data[1].transcript \o Space \o JoinBySpace(Tail(data))

RECURSIVE FinalsThenLastInterim(_)
FinalsThenLastInterim(data) ==
    IF data = <<>> THEN <<>>
    ELSE IF Head(data).is_final
         THEN Head(data).transcript \o Space \o FinalsThenLastInterim(Tail(data))
    ELSE IF Len(data) = 1 THEN Head(data).transcript
    ELSE FinalsThenLastInterim(Tail(data))

Ev(fragment, final) == [transcript |-> fragment, is_final |-> final]

\* C12: for a log of N recognition events that are all final, the result of
\* processTranscriptToString is the N fragments joined by single spaces,
\* trimmed; for the empty log it is the empty string.
C12_FinalsJoined ==
    /\ (\A i \in 1..Len(context.transcripts) : context.transcripts[i].is_final)
          => Rendered = Trim(JoinBySpace(context.transcripts))
    /\ context.transcripts = <<>> => Rendered = <<>>

\* three final events, one of them with outer spaces: "hello", " a ", "bye"
C12_Witness ==
    /\ context.transcripts = <<Ev(<<"h", "e", "l", "l", "o">>, TRUE), Ev(<<" ", "a", " ">>, TRUE), Ev(<<"b", "y", "e">>, TRUE)>>
    /\ Rendered = <<"h", "e", "l", "l", "o", " ", " ", "a", " ", " ", "b", "y", "e">>

\* C13: for any log of recognition events, the result of
\* processTranscriptToString is the trimmed concatenation of the fragment of
\* each final event followed by one space, in order, then the fragment of
\* the last event if it is interim; an interim event followed by a later
\* event contributes nothing.
C13_FinalsThenLastInterim ==
    /\ Rendered = Trim(FinalsThenLastInterim(context.transcripts))
    /\ context.transcripts = <<Ev(<<"h", "e", "l", "l", "o">>, FALSE), Ev(<<"h", "e", "l", "l", "o", " ", "w", "o", "r", "l", "d">>, TRUE), Ev(<<"b", "y", "e">>, FALSE)>>
          => Rendered = <<"h", "e", "l", "l", "o", " ", "w", "o", "r", "l", "d", " ", "b", "y", "e">>
    /\ context.transcripts = <<Ev(<<"h", "e">>, FALSE), Ev(<<"h", "e", "l">>, FALSE), Ev(<<"h", "e", "l", "l", "o">>, FALSE)>>
          => Rendered = <<"h", "e", "l", "l", "o">>

\* interim "hello", final "hello world", interim "bye" gave "hello world bye"
C13_Witness ==
    /\ context.transcripts = <<Ev(<<"h", "e", "l", "l", "o">>, FALSE), Ev(<<"h", "e", "l", "l", "o", " ", "w", "o", "r", "l", "d">>, TRUE), Ev(<<"b", "y", "e">>, FALSE)>>
    /\ Rendered = <<"h", "e", "l", "l", "o", " ", "w", "o", "r", "l", "d", " ", "b", "y", "e">>

\* C14: when the credential fetch fails the machine returns to idle with the
\* error set to that failure and with no credential cached in the context,
\* whatever attempts came before.
C14_FetchFailureLeavesNoKey ==
    [][(state = "prefetching" /\ state' = "idle")
          => /\ context'.error = "fetch"
             /\ context'.prefetchedKey = NoKey]_vars

\* C15: a CHANGE_LANGUAGE event changes the language field and nothing
\* else: the state and substate, the running delay, the cached key, the
\* resources, both logs and elapsedTime stay as they were, and an initialize
\* invocation in progress keeps the language it was started with.
C15_ChangeLanguageFrame ==
    [][context'.language # context.language
          => /\ context' = [context EXCEPT !.language = context'.language]
             /\ UNCHANGED <<state, sub, timer, init, envVars, recorderState,
                            loopVars, urlVars, lateSettled>>]_vars

\* the language was changed while initialize was running with the old one
C15_Witness ==
    /\ state = "initializing"
    /\ init.language # context.language

\* C16: an ERROR event of the socket during recording (active or paused)
\* changes neither the state nor the substate and releases nothing; after it
\* the logs still only grow and elapsedTime still only counts up while the
\* recording lasts.
C16_ErrorIgnored ==
    [][/\ (~errorReported /\ errorReported')
          => UNCHANGED <<state, sub, context, timer, envVars, recorderState,
                         loopVars, urlVars, lateSettled>>
       /\ (errorReported /\ errorReported')
          => /\ state' = "recording"
             /\ Len(context'.transcripts) >= Len(context.transcripts)
             /\ SubSeq(context'.transcripts, 1, Len(context.transcripts))
                   = context.transcripts
             /\ Len(context'.audioChunks) >= Len(context.audioChunks)
             /\ SubSeq(context'.audioChunks, 1, Len(context.audioChunks))
                   = context.audioChunks
             /\ context'.elapsedTime >= context.elapsedTime
             /\ openStreams' >= openStreams
             /\ openSockets' >= openSockets
             /\ openContexts' >= openContexts]_vars

\* an ERROR was reported and the recording went on: paused, with both logs
\* filled and a second counted
C16_Witness ==
    /\ errorReported
    /\ state = "recording"
    /\ sub = "paused"
    /\ Len(context.transcripts) = MaxTranscripts
    /\ Len(context.audioChunks) = MaxChunks
    /\ context.elapsedTime >= 1

\* C17: in every reachable state the capture-resource fields of the context
\* (microphone, socket, stream, and the analysis pipeline audioContext,
\* analyser, dataArray) are all present or all absent.
C17_ResourcesAllOrNone ==
    /\ context.socket = context.microphone
    /\ context.stream = context.microphone
    /\ context.audioContext = context.microphone
    /\ context.analyser = context.microphone
    /\ context.dataArray = context.microphone

\* a recording was stopped: the fields set together were cleared together
C17_Witness ==
    /\ state = "idle"
    /\ context.audioUrl # NoUrl
    /\ ~context.microphone
    /\ ~context.stream

\* C18: every key is passed to at most one initialize invocation: whenever
\* initializing is entered, its key was not passed to an earlier one.
C18_KeyUsedOnce ==
    [][(state # "initializing" /\ state' = "initializing")
          => /\ init'.prefetchedKey # NoKey
             /\ init'.prefetchedKey \notin usedKeys]_vars

\* a second initialize runs, with a key other than the one of the first
C18_Witness ==
    /\ state = "initializing"
    /\ Cardinality(usedKeys) = 2
    /\ init.prefetchedKey \in usedKeys

\* C19: no frame id is cancelled twice: cancelAnimationFrame is called only
\* while the context holds an id, the call clears the id, and a CLICK in
\* paused makes no cancel call.
C19_NoDoubleCancel ==
    [][/\ cancelsOfId' <= 1
       /\ cancelsOfId' > cancelsOfId
             => (context.analyzerFrameId /\ ~context'.analyzerFrameId)
       /\ (state = "recording" /\ sub = "paused" /\ state' = "idle")
             => ~InTrace(exitTrace', "cancelAnimationFrame")]_vars

\* stopped while paused: the one cancel was made by the pause, the exit
\* made none
C19_Witness ==
    /\ state = "idle"
    /\ cancelsOfId = 1
    /\ InTrace(exitTrace, "microphone.stop")
    /\ ~InTrace(exitTrace, "cancelAnimationFrame")

\* the events received so far in this recording, in arrival order
Arrived(received) == [k \in 1..received |-> k]

\* C20: during recording each TRANSCRIPT_RECEIVED (in active or paused) and
\* each AUDIO_DATA appends its payload at the end of its log, so each log
\* is the sequence of the events received in this recording in arrival
\* order; a TRANSCRIPT_RECEIVED in paused changes no state or substate.
C20_LogsInArrivalOrder ==
    [][/\ state' = "recording"
             => /\ context'.transcripts = Arrived(transcriptsReceived')
                /\ context'.audioChunks = Arrived(chunksReceived')
       /\ (state = "recording" /\ transcriptsReceived' > transcriptsReceived)
             => /\ context'.transcripts
                     = Append(context.transcripts, transcriptsReceived + 1)
                /\ UNCHANGED <<state, sub, lateSettled>>
       /\ (state = "recording" /\ chunksReceived' > chunksReceived)
             => context'.audioChunks
                   = Append(context.audioChunks, chunksReceived + 1)]_vars

\* paused, with two results and two chunks in the logs
C20_Witness ==
    /\ state = "recording"
    /\ sub = "paused"
    /\ context.transcripts = <<1, 2>>
    /\ context.audioChunks = <<1, 2>>

\* C21: a completion of fetchKey or of initialize is applied only in the
\* prefetching or initializing state that started it: a new key is cached
\* only by a step taken in prefetching, an error is recorded only by a step
\* taken in the state whose invocation failed, the resources are stored only
\* by a step taken in initializing with both acquisitions resolved, and an
\* acquisition that settles after its initialize was left changes neither
\* the state nor the context.
C21_LateResultsIgnored ==
    [][/\ (orphanMic' < orphanMic \/ orphanSock' < orphanSock)
             => UNCHANGED <<state, sub, context>>
       /\ (context'.prefetchedKey \notin {NoKey, context.prefetchedKey})
             => state = "prefetching"
       /\ (context'.error \notin {"null", context.error})
             => \/ state = "prefetching" /\ context'.error = "fetch"
                \/ state = "initializing" /\ context'.error = "initialize"
       /\ (context'.microphone /\ ~context.microphone)
             => /\ state = "initializing"
                /\ init.mic = "ok"
                /\ init.sock = "ok"
       /\ (state # state' /\ state \in {"prefetching", "initializing"})
             => state' \in {"idle", "ready", "initializing", "recording"}]_vars

\* initialize failed and was left; the other acquisition resolved afterwards:
\* its resource is live, the context holds none and the machine is in idle
C21_Witness ==
    /\ lateSettled
    /\ state = "idle"
    /\ context.error = "initialize"
    /\ openStreams + openSockets >= 1
    /\ ~context.stream
    /\ ~context.socket

\* C22: whenever recording is entered, the transcripts log and the
\* audioChunks log are empty and elapsedTime is 0.
C22_RecordingStartsEmpty ==
    [][(state # "recording" /\ state' = "recording")
          => /\ context'.transcripts = <<>>
             /\ context'.audioChunks = <<>>
             /\ context'.elapsedTime = 0]_vars

\* a second recording was just entered; the first one was stopped with two
\* chunks in its log
C22_Witness ==
    /\ state = "recording"
    /\ attempts = 2
    /\ context.recordedAudio = <<1, 2>>
    /\ activeTotal = 0
    /\ chunksReceived = 0
    /\ transcriptsReceived = 0
    /\ context.transcripts = <<>>

\* C23: the pending-start flag is false whenever the machine is in idle, so
\* a CLICK made in a prefetching whose fetch failed starts no later
\* initialize.
C23_NoPendingStartInIdle ==
    (state = "idle") => ~context.pendingStartClick

====
